---- MODULE Spec2Model ----
(***************************************************************************)
(* Flatbox XInput firmware (firmware/XInput_Flatbox.ino).                  *)
(*                                                                         *)
(* setup() runs once, then loop() runs forever: ReadPins() samples the 17  *)
(* input lines one digitalRead at a time into curr, ParseInput() compares  *)
(* curr with prev and tells the XInput transport what changed.  The input  *)
(* lines belong to the environment and may change level between any two    *)
(* steps of the program.                                                   *)
(***************************************************************************)
EXTENDS Integers, Sequences, FiniteSets, TLC

(* Number of level changes the environment makes on the input lines. *)
MaxToggles == 2

----------------------------------------------------------------------------
(* Pin layout, REV1 *)
PIN_UP == 9
PIN_DOWN == 7
PIN_LEFT == 6
PIN_RIGHT == 8
PIN_CROSS == 10
PIN_CIRCLE == 14
PIN_TRIANGLE == 15
PIN_SQUARE == 16
PIN_L1 == 21
PIN_L2 == 20
PIN_R1 == 19
PIN_R2 == 18
PIN_SELECT == 2
PIN_START == 1
PIN_L3 == 5
PIN_R3 == 3
PIN_PS == 0

(* The 17 lines setup() configures as INPUT_PULLUP. *)
InputPins ==
  { PIN_UP, PIN_DOWN, PIN_LEFT, PIN_RIGHT, PIN_CROSS, PIN_CIRCLE,
    PIN_TRIANGLE, PIN_SQUARE, PIN_L1, PIN_L2, PIN_R1, PIN_R2,
    PIN_SELECT, PIN_START, PIN_L3, PIN_R3, PIN_PS }

(* input_states: the fields in declaration order, one byte each. *)
Fields ==
  << "dpad_up", "dpad_down", "dpad_left", "dpad_right",
     "button_a", "button_b", "button_x", "button_y",
     "button_rb", "button_rt", "button_lb", "button_lt",
     "button_start", "button_back", "button_guide",
     "button_l3", "button_r3" >>

FieldSet == { Fields[i] : i \in 1..Len(Fields) }

SizeofInputStates == Len(Fields)

(* dpad_modes *)
mode_dpad == 0
mode_joystick == 1

(* memset(&s, 0, sizeof(input_states)) *)
ZeroStates == [f \in FieldSet |-> FALSE]

----------------------------------------------------------------------------
ReadOrderXY ==
  << <<"dpad_up", PIN_UP>>,
     <<"dpad_down", PIN_DOWN>>,
     <<"dpad_left", PIN_LEFT>>,
     <<"dpad_right", PIN_RIGHT>>,
     <<"button_a", PIN_CROSS>>,
     <<"button_b", PIN_CIRCLE>>,
     <<"button_y", PIN_SQUARE>>,
     <<"button_x", PIN_TRIANGLE>>,
     <<"button_lb", PIN_L1>>,
     <<"button_lt", PIN_L2>>,
     <<"button_rb", PIN_R1>>,
     <<"button_rt", PIN_R2>>,
     <<"button_back", PIN_SELECT>>,
     <<"button_start", PIN_START>>,
     <<"button_guide", PIN_PS>>,
     <<"button_l3", PIN_L3>>,
     <<"button_r3", PIN_R3>> >>

(* ReadPins: the assignments in statement order, <<field, pin>>. *)
ReadOrder ==
  << <<"dpad_up", PIN_UP>>,
     <<"dpad_down", PIN_DOWN>>,
     <<"dpad_left", PIN_LEFT>>,
     <<"dpad_right", PIN_RIGHT>>,
     <<"button_a", PIN_CROSS>>,
     <<"button_b", PIN_CIRCLE>>,
     <<"button_y", PIN_TRIANGLE>>,
     <<"button_x", PIN_SQUARE>>,
     <<"button_lb", PIN_L1>>,
     <<"button_lt", PIN_L2>>,
     <<"button_rb", PIN_R1>>,
     <<"button_rt", PIN_R2>>,
     <<"button_back", PIN_SELECT>>,
     <<"button_start", PIN_START>>,
     <<"button_guide", PIN_PS>>,
     <<"button_l3", PIN_L3>>,
     <<"button_r3", PIN_R3>> >>

IsLowHigh(level) == level = "HIGH"

(* (digitalRead(pin) == LOW) *)
IsLow(level) == level = "LOW"

BootModeHigh(level, mode) == IF level = "HIGH" THEN mode_joystick ELSE mode

(* if(digitalRead(PIN_LEFT) == LOW) dpad_mode = mode_joystick; *)
BootMode(level, mode) == IF IsLow(level) THEN mode_joystick ELSE mode

----------------------------------------------------------------------------
(* The bytes of an input_states object: a bool is stored as 0 or 1. *)
Bytes(s) == [i \in 1..Len(Fields) |-> IF s[Fields[i]] THEN 1 ELSE 0]

MemcmpShort(a, b, n) ==
  LET d == { i \in 1..(n - 1) : Bytes(a)[i] # Bytes(b)[i] }
  IN  IF d = {} THEN 0
      ELSE LET i == CHOOSE k \in d : \A m \in d : k <= m
           IN  Bytes(a)[i] - Bytes(b)[i]

MemcmpAlways(a, b, n) == 1

(* memcmp(&a, &b, n): 0 when the first n bytes agree, else the difference *)
(* of the first pair of bytes that differ.                                *)
Memcmp(a, b, n) ==
  LET d == { i \in 1..n : Bytes(a)[i] # Bytes(b)[i] }
  IN  IF d = {} THEN 0
      ELSE LET i == CHOOSE k \in d : \A m \in d : k <= m
           IN  Bytes(a)[i] - Bytes(b)[i]

(* x ^ y on two bools, used as a condition *)
Xor(x, y) == x # y

DpadChangedNoRight(p, c) ==
  \/ Xor(c["dpad_up"], p["dpad_up"])
  \/ Xor(c["dpad_down"], p["dpad_down"])
  \/ Xor(c["dpad_left"], p["dpad_left"])

(* The condition of "Handle Directional Pad". *)
DpadChanged(p, c) ==
  \/ Xor(c["dpad_up"], p["dpad_up"])
  \/ Xor(c["dpad_down"], p["dpad_down"])
  \/ Xor(c["dpad_left"], p["dpad_left"])
  \/ Xor(c["dpad_right"], p["dpad_right"])

DirectionalFnSwapped(mode) == IF mode # 0 THEN "setDpad" ELSE "setJoystick"

(* dpad_mode ? XInput.setJoystick(...) : XInput.setDpad(...) *)
DirectionalFn(mode) == IF mode # 0 THEN "setJoystick" ELSE "setDpad"

DirectionalArgsSwapped(c) ==
  << c["dpad_up"], c["dpad_down"], c["dpad_right"], c["dpad_left"], TRUE >>

(* The arguments after JOY_LEFT / of setDpad. *)
DirectionalArgs(c) ==
  << c["dpad_up"], c["dpad_down"], c["dpad_left"], c["dpad_right"], TRUE >>

(* One call on the XInput object. *)
DirectionalCall(c, mode) ==
  [ fn   |-> DirectionalFn(mode),
    id   |-> IF mode # 0 THEN "JOY_LEFT" ELSE "none",
    args |-> DirectionalArgs(c) ]

DirectionalUpdate(p, c, mode) ==
  IF DpadChanged(p, c) THEN << DirectionalCall(c, mode) >> ELSE << >>

ButtonOrderXY ==
  << <<"button_start", "BUTTON_START">>,
     <<"button_back", "BUTTON_BACK">>,
     <<"button_guide", "BUTTON_LOGO">>,
     <<"button_a", "BUTTON_A">>,
     <<"button_b", "BUTTON_B">>,
     <<"button_x", "BUTTON_Y">>,
     <<"button_y", "BUTTON_X">>,
     <<"button_lb", "BUTTON_LB">>,
     <<"button_rb", "BUTTON_RB">>,
     <<"button_l3", "BUTTON_L3">>,
     <<"button_r3", "BUTTON_R3">>,
     <<"button_lt", "TRIGGER_LEFT">>,
     <<"button_rt", "TRIGGER_RIGHT">> >>

(* "Handle Buttons" and "Handle Triggers": the if statements in order, *)
(* <<field tested and passed, identifier passed>>.                     *)
ButtonOrder ==
  << <<"button_start", "BUTTON_START">>,
     <<"button_back", "BUTTON_BACK">>,
     <<"button_guide", "BUTTON_LOGO">>,
     <<"button_a", "BUTTON_A">>,
     <<"button_b", "BUTTON_B">>,
     <<"button_x", "BUTTON_X">>,
     <<"button_y", "BUTTON_Y">>,
     <<"button_lb", "BUTTON_LB">>,
     <<"button_rb", "BUTTON_RB">>,
     <<"button_l3", "BUTTON_L3">>,
     <<"button_r3", "BUTTON_R3">>,
     <<"button_lt", "TRIGGER_LEFT">>,
     <<"button_rt", "TRIGGER_RIGHT">> >>

ButtonChangedAlways(e, p, c) == TRUE

(* if (curr.f ^ prev.f) *)
ButtonChanged(e, p, c) == Xor(c[e[1]], p[e[1]])

ButtonCallPressed(e, p, c) ==
  [ fn |-> "setButton", id |-> e[2], args |-> << TRUE >> ]

ButtonCallPrev(e, p, c) ==
  [ fn |-> "setButton", id |-> e[2], args |-> << p[e[1]] >> ]

(* XInput.setButton(ID, curr.f) *)
ButtonCall(e, p, c) ==
  [ fn |-> "setButton", id |-> e[2], args |-> << c[e[1]] >> ]

RECURSIVE ButtonUpdatesFrom(_, _, _)
ButtonUpdatesFrom(i, p, c) ==
  IF i > Len(ButtonOrder) THEN << >>
  ELSE (IF ButtonChanged(ButtonOrder[i], p, c)
        THEN << ButtonCall(ButtonOrder[i], p, c) >>
        ELSE << >>) \o ButtonUpdatesFrom(i + 1, p, c)

ButtonUpdates(p, c) == ButtonUpdatesFrom(1, p, c)

SendCall == [ fn |-> "send", id |-> "none", args |-> << >> ]

(* setup: XInput.setAutoSend(false), the argument and the call *)
AutoSendArgTrue == TRUE

AutoSendArg == FALSE

SetAutoSendCall ==
  [ fn |-> "setAutoSend", id |-> "none", args |-> << AutoSendArg >> ]

BeginCall == [ fn |-> "begin", id |-> "none", args |-> << >> ]

(* The identifiers ParseInput passes to setButton. *)
ButtonIds == { ButtonOrder[i][2] : i \in 1..Len(ButtonOrder) }

(* The XInput transport: its buffered report.  Every button released and *)
(* both directional controls neutral until told otherwise.               *)
NeutralReport ==
  [ btn  |-> [b \in ButtonIds |-> FALSE],
    dpad |-> << FALSE, FALSE, FALSE, FALSE >>,
    joy  |-> << FALSE, FALSE, FALSE, FALSE >> ]

(* The effect of one setButton / setDpad / setJoystick call on the buffer. *)
XApply(buf, call) ==
  CASE call.fn = "setButton" ->
         [buf EXCEPT !.btn[call.id] = call.args[1]]
    [] call.fn = "setDpad" ->
         [buf EXCEPT !.dpad = SubSeq(call.args, 1, 4)]
    [] call.fn = "setJoystick" ->
         [buf EXCEPT !.joy = SubSeq(call.args, 1, 4)]
    [] OTHER -> buf

RECURSIVE XApplyAll(_, _)
XApplyAll(buf, cs) ==
  IF cs = << >> THEN buf ELSE XApplyAll(XApply(buf, Head(cs)), Tail(cs))

(* The value each button identifier was last given in cs, else as in last. *)
LastEdges(last, cs) ==
  [ b \in ButtonIds |->
      LET I == { i \in 1..Len(cs) : cs[i].fn = "setButton" /\ cs[i].id = b }
      IN  IF I = {} THEN last[b]
          ELSE LET m == CHOOSE k \in I : \A j \in I : j <= k
               IN  IF cs[m].args[1] THEN "pressed" ELSE "released" ]

MemcpyPartial(dst, src) ==
  [ f \in FieldSet |-> IF f \in {Fields[1], Fields[2], Fields[3], Fields[4]}
                         THEN src[f] ELSE dst[f] ]

MemcpyNone(dst, src) == dst

(* memcpy(&dst, &src, sizeof(input_states)): the new value of dst *)
Memcpy(dst, src) == src

----------------------------------------------------------------------------
VARIABLES
  pins,      \* level of each input line (environment)
  toggles,   \* level changes made so far
  prev,      \* input_states prev
  curr,      \* input_states curr
  dpad_mode, \* int dpad_mode
  autoSend,  \* the transport's auto-send setting
  begun,     \* XInput.begin() has been called
  pc,        \* position of the program
  rd,        \* ReadPins: assignments executed in this call
  calls,     \* calls on XInput made by the current tick, in order
  prev0,     \* prev when the current tick started
  tickDone,  \* loop() has returned at least once
  bootLevel, \* level read by setup's digitalRead(PIN_LEFT), "none" before
  everCalled,\* names of the directional calls made since setup
  sent,      \* send() has been called at least once
  lastSent,  \* curr at the most recent send()
  lastPass,  \* curr at the return of the most recent ReadPins()
  seen,      \* line states that occurred during the current ReadPins()
  setupCalls,\* calls on XInput made by setup, in order
  buffer,    \* the transport's buffered report
  report,    \* the report most recently transmitted to the host
  implicitSent, \* a report was transmitted by auto-send, without send()
  lastEdge,  \* per button identifier, the value of its last setButton
  readLevel, \* per line, the level the current ReadPins() read, or "none"
  written,   \* fields the current ReadPins() has assigned
  stable     \* ticks started since the last level change, up to 2

vars ==
  << pins, toggles, prev, curr, dpad_mode, autoSend, begun, pc, rd, calls,
     prev0, tickDone, bootLevel, everCalled, sent, lastSent, lastPass, seen,
     setupCalls, buffer, report, implicitSent, lastEdge, readLevel, written,
     stable >>

progVars == << prev, curr, dpad_mode, autoSend, begun, pc, rd >>
histVars ==
  << calls, prev0, tickDone, bootLevel, everCalled, sent, lastSent,
     lastPass, seen >>
xVars == << setupCalls, buffer, report, implicitSent, lastEdge >>
passVars == << readLevel, written >>

(* Power-on: every line pulled up, globals as initialised by the C runtime *)
(* (zero-filled snapshots, dpad_mode = mode_dpad), auto-send on.           *)
Init ==
  /\ pins = [p \in InputPins |-> "HIGH"]
  /\ toggles = 0
  /\ prev = ZeroStates
  /\ curr = ZeroStates
  /\ dpad_mode = mode_dpad
  /\ autoSend = TRUE
  /\ begun = FALSE
  /\ pc = "setup_memset"
  /\ rd = 0
  /\ calls = << >>
  /\ prev0 = ZeroStates
  /\ tickDone = FALSE
  /\ bootLevel = "none"
  /\ everCalled = {}
  /\ sent = FALSE
  /\ lastSent = ZeroStates
  /\ lastPass = ZeroStates
  /\ seen = {}
  /\ setupCalls = << >>
  /\ buffer = NeutralReport
  /\ report = NeutralReport
  /\ implicitSent = FALSE
  /\ lastEdge = [b \in ButtonIds |-> "none"]
  /\ readLevel = [p \in InputPins |-> "none"]
  /\ written = {}
  /\ stable = 0

(* The environment changes the level of one input line. *)
Toggle ==
  /\ toggles < MaxToggles
  /\ \E p \in InputPins :
       pins' = [pins EXCEPT ![p] = IF @ = "LOW" THEN "HIGH" ELSE "LOW"]
  /\ toggles' = toggles + 1
  /\ seen' = IF pc = "ReadPins" /\ rd > 0 THEN seen \cup {pins'} ELSE seen
  /\ stable' = 0
  /\ UNCHANGED progVars
  /\ UNCHANGED << calls, prev0, tickDone, bootLevel, everCalled, sent,
                  lastSent, lastPass >>
  /\ UNCHANGED << xVars, passVars >>

(* setup: pinMode calls and the two memsets *)
SetupMemset ==
  /\ pc = "setup_memset"
  /\ prev' = ZeroStates
  /\ curr' = ZeroStates
  /\ pc' = "setup_mode"
  /\ UNCHANGED << pins, toggles, dpad_mode, autoSend, begun, rd >>
  /\ UNCHANGED << histVars, xVars, passVars, stable >>

SetupModeRecords ==
  /\ pc = "setup_mode"
  /\ dpad_mode' = BootMode(pins[PIN_LEFT], dpad_mode)
  /\ curr' = [curr EXCEPT !["dpad_left"] = IsLow(pins[PIN_LEFT])]
  /\ bootLevel' = pins[PIN_LEFT]
  /\ pc' = "setup_autosend"
  /\ UNCHANGED << pins, toggles, prev, autoSend, begun, rd >>
  /\ UNCHANGED << calls, prev0, tickDone, everCalled, sent, lastSent,
                  lastPass, seen >>
  /\ UNCHANGED << xVars, passVars, stable >>

(* setup: the boot mode selection *)
SetupMode ==
  /\ pc = "setup_mode"
  /\ dpad_mode' = BootMode(pins[PIN_LEFT], dpad_mode)
  /\ bootLevel' = pins[PIN_LEFT]
  /\ pc' = "setup_autosend"
  /\ UNCHANGED << pins, toggles, prev, curr, autoSend, begun, rd >>
  /\ UNCHANGED << calls, prev0, tickDone, everCalled, sent, lastSent,
                  lastPass, seen >>
  /\ UNCHANGED << xVars, passVars, stable >>

(* setup: XInput.setAutoSend(false) *)
SetupAutoSend ==
  /\ pc = "setup_autosend"
  /\ autoSend' = SetAutoSendCall.args[1]
  /\ setupCalls' = Append(setupCalls, SetAutoSendCall)
  /\ pc' = "setup_begin"
  /\ UNCHANGED << pins, toggles, prev, curr, dpad_mode, begun, rd >>
  /\ UNCHANGED << histVars, passVars, stable >>
  /\ UNCHANGED << buffer, report, implicitSent, lastEdge >>

(* setup: XInput.begin(), then setup returns *)
SetupBegin ==
  /\ pc = "setup_begin"
  /\ begun' = TRUE
  /\ setupCalls' = Append(setupCalls, BeginCall)
  /\ pc' = "loop"
  /\ UNCHANGED << pins, toggles, prev, curr, dpad_mode, autoSend, rd >>
  /\ UNCHANGED << histVars, passVars, stable >>
  /\ UNCHANGED << buffer, report, implicitSent, lastEdge >>

(* loop() is entered: a tick starts *)
LoopEnter ==
  /\ pc = "loop"
  /\ pc' = "ReadPins"
  /\ rd' = 0
  /\ calls' = << >>
  /\ prev0' = prev
  /\ UNCHANGED << pins, toggles, prev, curr, dpad_mode, autoSend, begun >>
  /\ readLevel' = [p \in InputPins |-> "none"]
  /\ written' = {}
  /\ stable' = IF stable < 2 THEN stable + 1 ELSE 2
  /\ UNCHANGED << tickDone, bootLevel, everCalled, sent, lastSent,
                  lastPass, seen >>
  /\ UNCHANGED xVars

(* ReadPins: the next assignment curr.f = (digitalRead(PIN) == LOW) *)
ReadPin ==
  /\ pc = "ReadPins"
  /\ LET e == ReadOrder[rd + 1]
     IN  /\ curr' = [curr EXCEPT ![e[1]] = IsLow(pins[e[2]])]
         /\ readLevel' = [readLevel EXCEPT ![e[2]] = pins[e[2]]]
         /\ written' = written \cup {e[1]}
  /\ rd' = rd + 1
  /\ pc' = IF rd' = Len(ReadOrder) THEN "ParseInput" ELSE "ReadPins"
  /\ seen' = IF rd = 0 THEN {pins} ELSE seen
  /\ lastPass' = IF rd' = Len(ReadOrder) THEN curr' ELSE lastPass
  /\ UNCHANGED << pins, toggles, prev, dpad_mode, autoSend, begun >>
  /\ UNCHANGED << calls, prev0, tickDone, bootLevel, everCalled, sent,
                  lastSent >>
  /\ UNCHANGED << xVars, stable >>

ParseInputUpdatesCopyFirst ==
  /\ pc = "ParseInput"
  /\ IF Memcmp(prev, curr, SizeofInputStates) # 0
     THEN /\ calls' = DirectionalUpdate(prev, curr, dpad_mode)
                        \o ButtonUpdates(prev, curr)
          /\ prev' = Memcpy(prev, curr)
          /\ pc' = "send"
          /\ tickDone' = tickDone
     ELSE /\ calls' = calls
          /\ prev' = prev
          /\ pc' = "loop"
          /\ tickDone' = TRUE
  /\ everCalled' =
       everCalled \cup
         { calls'[i].fn : i \in { j \in 1..Len(calls') :
                                    calls'[j].fn \in {"setDpad", "setJoystick"} } }
  /\ rd' = 0
  /\ UNCHANGED << pins, toggles, curr, dpad_mode, autoSend, begun >>
  /\ UNCHANGED << prev0, bootLevel, sent, lastSent, lastPass, seen >>
  /\ buffer' = XApplyAll(buffer, IF pc' = "send" THEN calls' ELSE << >>)
  /\ lastEdge' = LastEdges(lastEdge, IF pc' = "send" THEN calls' ELSE << >>)
  /\ implicitSent' = (implicitSent \/ (autoSend /\ pc' = "send"))
  /\ report' = IF autoSend /\ pc' = "send" THEN buffer' ELSE report
  /\ UNCHANGED << setupCalls, passVars, stable >>

(* ParseInput: the memcmp test and, when it is nonzero, the directional, *)
(* button and trigger updates; when it is zero ParseInput and loop return *)
ParseInputUpdates ==
  /\ pc = "ParseInput"
  /\ IF Memcmp(prev, curr, SizeofInputStates) # 0
     THEN /\ calls' = DirectionalUpdate(prev, curr, dpad_mode)
                        \o ButtonUpdates(prev, curr)
          /\ pc' = "send"
          /\ tickDone' = tickDone
     ELSE /\ calls' = calls
          /\ pc' = "loop"
          /\ tickDone' = TRUE
  /\ everCalled' =
       everCalled \cup
         { calls'[i].fn : i \in { j \in 1..Len(calls') :
                                    calls'[j].fn \in {"setDpad", "setJoystick"} } }
  /\ rd' = 0
  /\ UNCHANGED << pins, toggles, prev, curr, dpad_mode, autoSend, begun >>
  /\ UNCHANGED << prev0, bootLevel, sent, lastSent, lastPass, seen >>
  /\ buffer' = XApplyAll(buffer, IF pc' = "send" THEN calls' ELSE << >>)
  /\ lastEdge' = LastEdges(lastEdge, IF pc' = "send" THEN calls' ELSE << >>)
  /\ implicitSent' = (implicitSent \/ (autoSend /\ pc' = "send"))
  /\ report' = IF autoSend /\ pc' = "send" THEN buffer' ELSE report
  /\ UNCHANGED << setupCalls, passVars, stable >>

(* ParseInput: XInput.send() *)
ParseInputSend ==
  /\ pc = "send"
  /\ calls' = Append(calls, SendCall)
  /\ sent' = TRUE
  /\ lastSent' = curr
  /\ report' = buffer
  /\ pc' = "memcpy"
  /\ UNCHANGED << pins, toggles, prev, curr, dpad_mode, autoSend, begun, rd >>
  /\ UNCHANGED << prev0, tickDone, bootLevel, everCalled, lastPass, seen >>
  /\ UNCHANGED << setupCalls, buffer, implicitSent, lastEdge, passVars,
                  stable >>

(* ParseInput: memcpy(&prev, &curr, ...), then ParseInput and loop return *)
ParseInputMemcpy ==
  /\ pc = "memcpy"
  /\ prev' = Memcpy(prev, curr)
  /\ pc' = "loop"
  /\ tickDone' = TRUE
  /\ UNCHANGED << pins, toggles, curr, dpad_mode, autoSend, begun, rd >>
  /\ UNCHANGED << calls, prev0, bootLevel, everCalled, sent, lastSent,
                  lastPass, seen >>
  /\ UNCHANGED << xVars, passVars, stable >>

Next ==
  \/ Toggle
  \/ SetupMemset
  \/ SetupMode
  \/ SetupAutoSend
  \/ SetupBegin
  \/ LoopEnter
  \/ ReadPin
  \/ ParseInputUpdates
  \/ ParseInputSend
  \/ ParseInputMemcpy

Spec == Init /\ [][Next]_vars

(* The steps of the program: setup, then loop() called again and again. *)
Step ==
  \/ SetupMemset
  \/ SetupMode
  \/ SetupAutoSend
  \/ SetupBegin
  \/ LoopEnter
  \/ ReadPin
  \/ ParseInputUpdates
  \/ ParseInputSend
  \/ ParseInputMemcpy

(* The loop keeps running. *)
FairSpec == Spec /\ WF_vars(Step)

----------------------------------------------------------------------------
(* Vocabulary of the properties. *)

(* loop() has just returned: calls, prev0 describe the tick that ended. *)
TickEnd == pc = "loop" /\ tickDone

DirectionalFields == {"dpad_up", "dpad_down", "dpad_left", "dpad_right"}
ButtonFields == FieldSet \ DirectionalFields

(* The button identifier that belongs to each non-directional field. *)
OwnButton ==
  [ button_start |-> "BUTTON_START", button_back |-> "BUTTON_BACK",
    button_guide |-> "BUTTON_LOGO", button_a |-> "BUTTON_A",
    button_b |-> "BUTTON_B", button_x |-> "BUTTON_X",
    button_y |-> "BUTTON_Y", button_lb |-> "BUTTON_LB",
    button_rb |-> "BUTTON_RB", button_l3 |-> "BUTTON_L3",
    button_r3 |-> "BUTTON_R3", button_lt |-> "TRIGGER_LEFT",
    button_rt |-> "TRIGGER_RIGHT" ]

(* The input line wired to each field. *)
LineOf ==
  [ dpad_up |-> PIN_UP, dpad_down |-> PIN_DOWN, dpad_left |-> PIN_LEFT,
    dpad_right |-> PIN_RIGHT, button_a |-> PIN_CROSS,
    button_b |-> PIN_CIRCLE, button_y |-> PIN_TRIANGLE,
    button_x |-> PIN_SQUARE, button_lb |-> PIN_L1, button_lt |-> PIN_L2,
    button_rb |-> PIN_R1, button_rt |-> PIN_R2, button_back |-> PIN_SELECT,
    button_start |-> PIN_START, button_guide |-> PIN_PS,
    button_l3 |-> PIN_L3, button_r3 |-> PIN_R3 ]

(* The logical (active-low) state of all lines at one point in time. *)
Logical(lines) == [f \in FieldSet |-> lines[LineOf[f]] = "LOW"]

Differing(a, b, fs) == { f \in fs : a[f] # b[f] }

CallsOf(fns) == { i \in 1..Len(calls) : calls[i].fn \in fns }

SendCount == Cardinality(CallsOf({"send"}))

DirectionalCalls == CallsOf({"setDpad", "setJoystick"})

ButtonCalls == CallsOf({"setButton"})

----------------------------------------------------------------------------
(* C1 - Flush gating: in the tick that just ended, send() was called iff  *)
(* some field of curr differed from prev when ParseInput started, and     *)
(* then exactly once; prev equals curr after a send and its value before  *)
(* the tick otherwise.                                                    *)
C1_FlushGating ==
  TickEnd =>
    /\ SendCount <= 1
    /\ (SendCount = 1) <=> (Differing(prev0, curr, FieldSet) # {})
    /\ prev = IF SendCount = 1 THEN curr ELSE prev0

C1_Witness ==
  /\ TickEnd
  /\ SendCount = 1
  /\ prev0 # curr
  /\ prev = curr

(* C2 - No-change idempotence: a tick in which curr = prev = S makes no   *)
(* setDpad, setJoystick or setButton call, no send, and leaves prev = S,  *)
(* in either mode.                                                        *)
C2_NoChangeIdempotence ==
  (TickEnd /\ curr = prev0) => (calls = << >> /\ prev = prev0)

C2_Witness ==
  /\ TickEnd
  /\ curr = prev0
  /\ curr["dpad_left"]
  /\ dpad_mode = mode_joystick
  /\ calls = << >>

(* C3 - Exhaustive-edge coverage: with F the non-directional fields on    *)
(* which prev and curr differed, the tick made exactly |F| setButton      *)
(* calls, one per field of F, addressed to that field's own identifier    *)
(* and carrying curr's value; no identifier was updated twice.            *)
C3_ExhaustiveEdges ==
  TickEnd =>
    LET F == Differing(prev0, curr, ButtonFields)
    IN  /\ Cardinality(ButtonCalls) = Cardinality(F)
        /\ \A f \in F :
             \E i \in ButtonCalls :
               /\ calls[i].id = OwnButton[f]
               /\ calls[i].args = << curr[f] >>
        /\ \A i, j \in ButtonCalls : calls[i].id = calls[j].id => i = j

C3_Witness ==
  /\ TickEnd
  /\ Cardinality(Differing(prev0, curr, ButtonFields)) = 2
  /\ Cardinality(ButtonCalls) = 2

(* C4 - Directional atomicity: a tick in which some directional field     *)
(* differed made exactly one directional call (setDpad or setJoystick),   *)
(* carrying curr's up, down, left, right in that order.                   *)
C4_DirectionalAtomicity ==
  (TickEnd /\ Differing(prev0, curr, DirectionalFields) # {}) =>
    /\ Cardinality(DirectionalCalls) = 1
    /\ \A i \in DirectionalCalls :
         SubSeq(calls[i].args, 1, 4) =
           << curr["dpad_up"], curr["dpad_down"],
              curr["dpad_left"], curr["dpad_right"] >>

C4_Witness ==
  /\ TickEnd
  /\ Differing(prev0, curr, DirectionalFields) # {}
  /\ curr["dpad_right"]
  /\ Cardinality(DirectionalCalls) = 1

(* C5 - Mode exclusivity: after setup only one kind of directional call   *)
(* is ever made: never setDpad in mode_joystick, never setJoystick in     *)
(* mode_dpad.                                                             *)
C5_ModeExclusivity ==
  pc \notin {"setup_memset", "setup_mode", "setup_autosend", "setup_begin"} =>
    /\ dpad_mode \in {mode_dpad, mode_joystick}
    /\ dpad_mode = mode_joystick => "setDpad" \notin everCalled
    /\ dpad_mode = mode_dpad => "setJoystick" \notin everCalled
    /\ Cardinality(everCalled) <= 1

C5_Witness ==
  /\ TickEnd
  /\ dpad_mode = mode_joystick
  /\ everCalled = {"setJoystick"}

(* C6 - Boot mode selection: once setup has read PIN_LEFT, the mode is    *)
(* mode_joystick in every later state if the read was LOW and mode_dpad   *)
(* in every later state otherwise, whatever the lines do afterwards.      *)
C6_BootModeSelection ==
  bootLevel # "none" =>
    dpad_mode = IF bootLevel = "LOW" THEN mode_joystick ELSE mode_dpad

C6_Witness ==
  /\ TickEnd
  /\ bootLevel = "LOW"
  /\ pins[PIN_LEFT] = "HIGH"
  /\ dpad_mode = mode_joystick

(* C7 as stated - Snapshot atomicity: the snapshot a sampling pass        *)
(* produced equals the state of all 17 lines at one point in time of the  *)
(* pass, also when lines changed level during the pass.                   *)
C7_SnapshotAtomic ==
  pc = "ParseInput" => \E s \in seen : curr = Logical(s)

(* C7 amended - every field of the snapshot a sampling pass produced      *)
(* holds the level its line had at some point in time of the pass, and    *)
(* the snapshot equals the state of all 17 lines at one point in time     *)
(* when no line changed level during the pass.                            *)
C7_SnapshotPerField ==
  pc = "ParseInput" =>
    /\ \A f \in FieldSet : \E s \in seen : curr[f] = Logical(s)[f]
    /\ Cardinality(seen) = 1 => \E s \in seen : curr = Logical(s)

C7_Witness ==
  /\ pc = "ParseInput"
  /\ Cardinality(seen) > 1
  /\ curr # ZeroStates

(* C8 - Baseline invariant: when loop() has returned, prev is the         *)
(* snapshot curr held at the most recent send, or all-false if nothing    *)
(* was sent yet, and curr is the result of the most recent completed      *)
(* sampling pass.                                                         *)
C8_Baseline ==
  TickEnd =>
    /\ prev = IF sent THEN lastSent ELSE ZeroStates
    /\ curr = lastPass

C8_Witness ==
  /\ TickEnd
  /\ sent
  /\ calls = << >>
  /\ prev # ZeroStates

(* C9 - No update for an unchanged input: the tick made no setButton call *)
(* for a non-directional field equal in prev and curr, and no directional *)
(* call when all four directional fields were equal, even if other fields *)
(* changed.                                                               *)
C9_NoUpdateForUnchanged ==
  TickEnd =>
    /\ \A f \in ButtonFields :
         prev0[f] = curr[f] =>
           \A i \in ButtonCalls : calls[i].id # OwnButton[f]
    /\ Differing(prev0, curr, DirectionalFields) = {} => DirectionalCalls = {}

C9_Witness ==
  /\ TickEnd
  /\ SendCount = 1
  /\ Differing(prev0, curr, DirectionalFields) = {}
  /\ Cardinality(Differing(prev0, curr, ButtonFields)) = 1

(* C10 - Ordering inside a changed tick: the send is the last transport   *)
(* call of the tick, after every setDpad, setJoystick and setButton call, *)
(* and prev is overwritten with curr only after the send.                 *)
C10_Ordering ==
  /\ \A i \in CallsOf({"send"}) : i = Len(calls)
  /\ pc = "memcpy" => (SendCount = 1 /\ prev = prev0)
  /\ (pc \in {"ReadPins", "ParseInput", "send", "memcpy"} /\ prev # prev0) =>
       (SendCount = 1 /\ prev = curr)
  /\ (TickEnd /\ prev # prev0) => (SendCount = 1 /\ prev = curr)

C10_Witness ==
  /\ pc = "memcpy"
  /\ Len(calls) >= 3
  /\ calls[Len(calls)].fn = "send"
  /\ prev # curr

----------------------------------------------------------------------------
InSetup == pc \in {"setup_memset", "setup_mode", "setup_autosend", "setup_begin"}

SetupCallsOf(fn) == { i \in 1..Len(setupCalls) : setupCalls[i].fn = fn }

(* The transport report r shows snapshot s, for the mode in force. *)
ReportShows(r, s) ==
  /\ \A f \in ButtonFields : r.btn[OwnButton[f]] = s[f]
  /\ (IF dpad_mode = mode_joystick THEN r.joy ELSE r.dpad) =
       << s["dpad_up"], s["dpad_down"], s["dpad_left"], s["dpad_right"] >>

(* C11 - Startup ordering: setAutoSend(false) is called exactly once, in  *)
(* setup, before begin() and before any setDpad, setJoystick, setButton   *)
(* or send; auto-send is never on afterwards and no report is ever        *)
(* transmitted except by an explicit send.                                *)
C11_StartupOrdering ==
  /\ Cardinality(SetupCallsOf("setAutoSend")) <= 1
  /\ \A i \in SetupCallsOf("setAutoSend") : setupCalls[i].args = << FALSE >>
  /\ \A i \in SetupCallsOf("begin") :
       \E j \in SetupCallsOf("setAutoSend") : j < i
  /\ \A i \in 1..Len(calls) : calls[i].fn \notin {"setAutoSend", "begin"}
  /\ (begun \/ ~InSetup \/ calls # << >> \/ sent \/ everCalled # {}) =>
       (Cardinality(SetupCallsOf("setAutoSend")) = 1 /\ ~autoSend)
  /\ (calls # << >> \/ sent \/ everCalled # {}) => (begun /\ ~InSetup)
  /\ ~implicitSent

C11_Witness ==
  /\ TickEnd
  /\ sent
  /\ Len(setupCalls) = 2
  /\ setupCalls[1].fn = "setAutoSend"
  /\ setupCalls[2].fn = "begin"
  /\ ~autoSend

(* C12 - Sampler correctness: after a ReadPins call every field of curr   *)
(* is true iff the line mapped to it read LOW during that call, and all   *)
(* 17 fields were written by the call.                                    *)
C12_SamplerCorrectness ==
  (pc \in {"ParseInput", "send", "memcpy"} \/ TickEnd) =>
    /\ written = FieldSet
    /\ \A f \in FieldSet :
         /\ readLevel[LineOf[f]] \in {"LOW", "HIGH"}
         /\ curr[f] <=> (readLevel[LineOf[f]] = "LOW")

C12_Witness ==
  /\ pc = "ParseInput"
  /\ readLevel[PIN_SQUARE] = "LOW"
  /\ readLevel[PIN_TRIANGLE] = "HIGH"
  /\ curr["button_x"]
  /\ ~curr["button_y"]

(* C13 - Startup snapshots: from the memsets until the first tick both    *)
(* snapshots are all-false whatever the line levels, the read of the      *)
(* mode-select line included; every line the first tick reads LOW is      *)
(* reported by that tick as a press.                                      *)
C13_StartupSnapshots ==
  /\ []((pc \in {"setup_mode", "setup_autosend", "setup_begin"}
          \/ (pc = "loop" /\ ~tickDone))
        => (prev = ZeroStates /\ curr = ZeroStates))
  /\ [][(~tickDone /\ tickDone') =>
          /\ \A f \in ButtonFields :
               readLevel'[LineOf[f]] = "LOW" =>
                 \E i \in 1..Len(calls') :
                   /\ calls'[i].fn = "setButton"
                   /\ calls'[i].id = OwnButton[f]
                   /\ calls'[i].args = << TRUE >>
          /\ \A f \in DirectionalFields :
               readLevel'[LineOf[f]] = "LOW" =>
                 \E i \in 1..Len(calls') :
                   /\ calls'[i].fn \in {"setDpad", "setJoystick"}
                   /\ SubSeq(calls'[i].args, 1, 4) =
                        << readLevel'[PIN_UP] = "LOW",
                           readLevel'[PIN_DOWN] = "LOW",
                           readLevel'[PIN_LEFT] = "LOW",
                           readLevel'[PIN_RIGHT] = "LOW" >>]_vars

C13_Witness ==
  /\ TickEnd
  /\ bootLevel = "LOW"
  /\ prev0 = ZeroStates
  /\ curr["dpad_left"]
  /\ \E i \in DirectionalCalls :
       calls[i].fn = "setJoystick" /\ calls[i].args[3]

(* C14 - Frame conditions: no step of ReadPins changes prev or dpad_mode; *)
(* no step of ParseInput changes curr or dpad_mode, and one changes prev  *)
(* only after the tick's send, making prev equal to curr.                 *)
C14_FrameConditions ==
  [][/\ pc = "ReadPins" => (prev' = prev /\ dpad_mode' = dpad_mode)
     /\ pc \in {"ParseInput", "send", "memcpy"} =>
          /\ curr' = curr
          /\ dpad_mode' = dpad_mode
          /\ prev' # prev => (SendCount = 1 /\ prev' = curr)]_vars

C14_Witness ==
  /\ TickEnd
  /\ SendCount = 1
  /\ prev # prev0
  /\ prev = curr
  /\ Differing(prev0, curr, ButtonFields) # {}
  /\ Differing(prev0, curr, DirectionalFields) # {}

(* C15 - Transport mirrors the snapshot: after every completed tick the   *)
(* transport's buffered value of each button equals the matching field of *)
(* curr, the directional values last given to the mode's control equal    *)
(* curr's four directional fields, and the report last sent equals the    *)
(* buffered state.                                                        *)
C15_TransportMirror ==
  TickEnd =>
    /\ ReportShows(buffer, curr)
    /\ sent => report = buffer

C15_Witness ==
  /\ TickEnd
  /\ sent
  /\ curr["button_x"]
  /\ report.btn["BUTTON_X"]
  /\ ~report.btn["BUTTON_Y"]

(* C16 - Alternating edges: every setButton call carries the opposite of  *)
(* the value last carried for its identifier, and pressed = true when it  *)
(* is the first for that identifier; no identifier is pressed twice or    *)
(* released twice in a row.                                               *)
C16_AlternatingEdges ==
  [][(pc = "ParseInput" /\ pc' = "send") =>
       \A i \in 1..Len(calls') :
         calls'[i].fn = "setButton" =>
           /\ calls'[i].args[1] <=> (lastEdge[calls'[i].id] # "pressed")
           /\ \A j \in 1..Len(calls') :
                (calls'[j].fn = "setButton" /\ calls'[j].id = calls'[i].id)
                  => j = i]_vars

C16_Witness ==
  /\ TickEnd
  /\ \E b \in ButtonIds : lastEdge[b] = "released"

(* C17 - No empty flush: when memcmp reports a difference at least one of *)
(* the field tests is true, so every send is preceded in its tick by at   *)
(* least one setDpad, setJoystick or setButton call.                      *)
C17_NoEmptyFlush ==
  /\ (pc = "ParseInput" /\ Memcmp(prev, curr, SizeofInputStates) # 0) =>
       \/ DpadChanged(prev, curr)
       \/ \E i \in 1..Len(ButtonOrder) : ButtonChanged(ButtonOrder[i], prev, curr)
  /\ pc = "send" => Len(calls) >= 1
  /\ \A i \in CallsOf({"send"}) :
       i >= 2 /\ calls[i - 1].fn \in {"setDpad", "setJoystick", "setButton"}

C17_Witness ==
  /\ pc = "memcpy"
  /\ Differing(prev, curr, FieldSet) = {"dpad_right"}
  /\ Len(calls) = 2
  /\ calls[2].fn = "send"

(* The lines' logical state has been reported. *)
Converged ==
  /\ prev = Logical(pins)
  /\ sent => ReportShows(report, prev)
  /\ ~sent => prev = ZeroStates

(* C18 - Convergence and quiescence: with the loop running, a complete    *)
(* tick that starts after the lines' last change ends with prev equal to  *)
(* the lines' logical state and the last sent report showing it; later    *)
(* ticks issue no update and no send, for ever.                           *)
C18_Convergence ==
  /\ []((TickEnd /\ stable >= 1) => Converged)
  /\ []((TickEnd /\ stable = 2) => calls = << >>)
  /\ <>[](Converged /\ calls = << >>)

C18_Witness ==
  /\ TickEnd
  /\ stable = 2
  /\ sent
  /\ prev = Logical(pins)
  /\ prev # ZeroStates
  /\ calls = << >>

====
